---- MODULE Spec2Model ----
\* Execution groups of lark (luamodules/lark/core) and the top-level task
\* driver (cmd/lark run): the registry c.groups, the closures started into
\* groups, the single Lua thread that calls make_group / start / wait, and
\* RunTask's run-then-drain loop.
EXTENDS Integers, Naturals, Sequences, FiniteSets, TLC

\* ---------------------------------------------------------------- bounds
GroupNames == {"", "a"}           \* "" is the unnamed group
MaxClosures == 2                  \* closures started over the whole process
MaxTasks == 2                     \* tasks named on the command line
MaxTaskCalls == 4
MaxExecs == 2                     \* exec calls of a script
MaxWaitArgs == 2                  \* arguments of a script-level wait(...)

\* ---------------------------------------------------------------- errors
Nil == 0                          \* Go nil error / absent "error" field
ScriptErr == 99                   \* error raised by the task body itself
SchedErr == 98                    \* error returned by Group.Exec itself
InvalidFd == 97                   \* "invalid file descriptor"
ExitErr == 96                     \* *exec.ExitError of cmd.Run
ErrorTextBase == 2000             \* err.Error() of an error
ArgErr == 95                      \* error raised by state.ArgError
NotExist == 94                    \* error of os.Open on a missing file
AsyncBase == 100
ApiErrorBase == 1000
\* fmt.Sprintf("asynchronous error: %v", err)
AsyncMsg(e) == AsyncBase + e

\* ------------------------------------------------------- execgroup.Group
\* execgroup.NewGroup(follows): no outstanding work, empty error slot.
NewGroup(fs) == [follows |-> fs, running |-> 0, err |-> Nil]

\* Group.Exec, synchronous part: one more outstanding work item.
GroupExec(g) == [g EXCEPT !.running = @ + 1]

SetErr_Overwrite(old, e) == IF e # Nil THEN e ELSE old
\* error slot, first write wins
SetErr(old, e) == IF old = Nil THEN e ELSE old

\* a scheduled closure returned e
GroupDone(g, e) == [g EXCEPT !.running = @ - 1, !.err = SetErr(@, e)]

\* a group is drained when it has no outstanding work
Drained(g) == g.running = 0

FollowDrained_NeverSignalled(reg, f) == FALSE
\* what a closure or a waiter blocks on for one followed group
FollowDrained(reg, f) == Drained(reg[f])

WaitReady_Always(reg, name, todo) == TRUE
\* Group.Wait may return: every followed group was seen drained and the
\* group itself has no outstanding work
WaitReady(reg, name, todo) == todo = {} /\ Drained(reg[name])

\* ------------------------------------------------------------------ state
VARIABLES
  groups,      \* c.groups: registered name -> group
  closures,    \* closures handed to Group.Exec and not yet returned, by id
  started,     \* number of closures handed to Group.Exec so far
  phase,       \* position of the main thread in Run / RunTask
  wait,        \* the LuaWait call in progress (the Lua thread is blocked)
  err,         \* RunTask's err
  tasksLeft,   \* tasks of the command line not yet started
  exitCode,    \* -1 while the process runs
  declared,    \* history: follows passed to make_group for each group
  csaw,        \* history: per closure, followed groups seen drained since its Exec
  wsaw,        \* history: followed groups seen drained since the current wait began
  lastWait,    \* history: the LuaWait call that just returned
  lastCall,    \* history: the make_group or start call of the last step
  suppressed,  \* history: <<group, closure>> of ignored commands that failed
  discarded,   \* history: groups in which a later error was dropped
  firstErr,    \* history: per group, the first non-nil error a closure returned
  runErr,      \* history: error of lark.run in the current RunTask
  drainErr,    \* history: first error of lark.wait() in the current drain
  drainWaits,  \* history: whether the current RunTask called lark.wait()
  recording,   \* history: whether lastCall and suppressed are kept
  mapUsers,    \* history: the threads that have read or written c.groups
  files,       \* the file system: path -> what was written to the file
  console,     \* what reached the stdout and stderr of the lark process
  closed,      \* which of os.Stdout, os.Stderr have been closed
  nexec,       \* number of exec calls so far
  lastExec,   \* history: the exec call of the last step
  lark,        \* the table lark of the Lua state: default_task, tasks, patterns
  invoked,     \* the task bodies invoked so far, in order
  lastRun,     \* the last call of lark.task, lark.pattern or lark.run_task
  ncalls,      \* number of such calls so far
  project      \* the module directory of the project and what FindModules returned

runVars == <<groups, closures, started, phase, wait, err, tasksLeft, exitCode,
             declared, csaw, wsaw, lastWait, lastCall, suppressed, discarded,
          firstErr, runErr, drainErr, drainWaits, recording, mapUsers>>

execVars == <<files, console, closed, nexec, lastExec>>

taskVars == <<lark, invoked, lastRun, ncalls>>

vars == <<runVars, execVars, taskVars, project>>

\* FindModules has not been called, the module directory is empty
NoProject == [present |-> {}, walkFails |-> FALSE, called |-> FALSE]

NoWait == [active |-> FALSE]
NoCall == [returned |-> FALSE]

Registered == DOMAIN groups

InitState ==
  /\ groups = <<>>
  /\ closures = <<>>
  /\ started = 0
  /\ phase = "loop"
  /\ wait = NoWait
  /\ err = Nil
  /\ exitCode = -1
  /\ declared = <<>>
  /\ csaw = <<>>
  /\ wsaw = {}
  /\ lastWait = NoCall
  /\ lastCall = NoCall
  /\ suppressed = {}
  /\ discarded = {}
  /\ firstErr = [n \in GroupNames |-> Nil]
  /\ runErr = Nil
  /\ drainErr = Nil
  /\ drainWaits = FALSE
  /\ mapUsers = {}
  /\ files = <<>>
  /\ console = <<>>
  /\ closed = {}
  /\ nexec = 0
  /\ lastExec = NoCall
  /\ lark = [default_task |-> <<>>, tasks |-> <<>>, patterns |-> <<>>]
  /\ invoked = <<>>
  /\ lastRun = NoCall
  /\ ncalls = 0

\* part_002 71-81: the tasks Run runs for the arguments of the command line
NormTasks(args) ==
  IF Len(args) = 0 THEN [err |-> FALSE, tasks |-> <<"">>]
  ELSE IF \E k \in DOMAIN args : args[k] = ""
    THEN [err |-> TRUE, tasks |-> <<>>]
    ELSE [err |-> FALSE, tasks |-> args]

\* command lines of up to MaxTasks task names
ArgLists ==
  UNION {[1..n -> {"", "build", "test"}] : n \in 0..MaxTasks}

Init ==
  /\ InitState /\ tasksLeft \in 1..MaxTasks /\ recording = FALSE
  /\ project = NoProject

\* a command line of one task, with the calls of its script recorded
TraceInit ==
  /\ InitState /\ tasksLeft = 1 /\ recording = TRUE
  /\ project = NoProject

\* what the history keeps of a call
Record(r) == IF recording THEN r ELSE NoCall

\* the thread of the Lua state, which runs the script and RunTask's chunks
LuaThread == <<"lua", 0>>

\* the threads in T have used c.groups in this step
MapUsed(T) == mapUsers' = IF recording THEN mapUsers \cup T ELSE mapUsers

\* map m with key k set to v
Put(m, k, v) == [n \in DOMAIN m \cup {k} |-> IF n = k THEN v ELSE m[n]]

\* map m without key k
Drop(m, k) == [n \in DOMAIN m \ {k} |-> m[n]]

\* history bookkeeping, evaluated on the successor state
DrainedNow(reg) == {n \in DOMAIN reg : Drained(reg[n])}

Declared(dcl, name) == IF name \in DOMAIN dcl THEN dcl[name] ELSE {}

Track ==
  /\ csaw' = [i \in DOMAIN closures' |->
                LET mine == Declared(declared', closures'[i].group) IN
                IF i \in DOMAIN closures
                  THEN IF closures[i].stage = "blocked"
                         THEN csaw[i] \cup (DrainedNow(groups') \cap mine)
                         ELSE csaw[i]
                  ELSE DrainedNow(groups') \cap mine]
  /\ wsaw' = IF wait'.active
               THEN (IF wait.active THEN wsaw ELSE {})
                      \cup (DrainedNow(groups') \cap Declared(declared', wait'.group))
               ELSE {}
  /\ UNCHANGED <<recording, files, console, closed, nexec>>
  /\ lastExec' = NoCall
  /\ UNCHANGED <<taskVars, project>>

WithFollows_Replace(reg, fl) ==
  [n \in DOMAIN reg \cup fl |-> IF n \in fl THEN NewGroup({}) ELSE reg[n]]
\* ------------------------------------------------------------ make_group
\* core.go 168-176: every followed name is looked up and, when unknown,
\* registered as a group that follows nothing
WithFollows(reg, fl) ==
  [n \in DOMAIN reg \cup fl |-> IF n \in DOMAIN reg THEN reg[n] ELSE NewGroup({})]

MakeGroupNew_NoFollows(gfollows) == NewGroup({})
\* core.go 185: the group made by make_group follows gfollows
MakeGroupNew(gfollows) == NewGroup(gfollows)

\* the Lua thread is executing the task body and is not blocked in wait
InScript == phase = "run" /\ ~wait.active

MakeGroupConflict_Never(reg, fl, name) == FALSE
MakeGroupConflict_BeforeFollows(reg, fl, name) == name \in DOMAIN reg
\* core.go 168-183: "group already exists", looked up in c.groups after the
\* follows loop has registered the followed names
MakeGroupConflict(reg, fl, name) == name \in DOMAIN WithFollows(reg, fl)

LuaMakeGroup(name, fl) ==
  /\ InScript
  /\ LET reg1 == WithFollows(groups, fl)
         conflict == MakeGroupConflict(groups, fl, name) IN
       /\ IF conflict
            THEN \* ArgError
                 /\ groups' = reg1
                 /\ declared' = declared
            ELSE /\ groups' = Put(reg1, name, MakeGroupNew(fl))
                 /\ declared' = IF name \in DOMAIN declared THEN declared
                                 ELSE Put(declared, name, fl)
       /\ lastCall' = Record([returned |-> TRUE, op |-> "make_group",
                              name |-> name, fl |-> fl,
                              existed |-> name \in DOMAIN groups,
                              conflict |-> conflict])
  /\ lastWait' = NoCall
  /\ UNCHANGED <<closures, started, phase, wait, err, tasksLeft, exitCode,
                 discarded, suppressed, firstErr, runErr, drainErr, drainWaits>>
  /\ MapUsed({LuaThread})
  /\ Track

\* ----------------------------------------------------------------- start
StartGroups_Replace(reg, groupname) == Put(reg, groupname, NewGroup({}))
\* core.go 363-367: the group of a start call, created on demand
StartGroups(reg, groupname) ==
  IF groupname \in DOMAIN reg THEN reg ELSE Put(reg, groupname, NewGroup({}))

\* an option of the argument table that holds a string is <<>> when the
\* field is nil and <<str>> when it is the string str
StdinOpts == {<<>>, <<"">>, <<"in.txt">>, <<"gone.txt">>}
InputOpts == {<<>>, <<"">>, <<"x">>}

ParseStdin_NoConflict(stdin, input) ==
  [err |-> Nil,
   StdinFile |-> IF Len(stdin) = 0 THEN "" ELSE stdin[1],
   Input |-> IF Len(input) = 0 THEN "" ELSE input[1]]
\* core.go 284-309, 425-450: the stdin and input fields of the table; both
\* given is an ArgError, where an empty stdin counts as not given
ParseStdin(stdin, input) ==
  LET file == IF Len(stdin) = 0 THEN "" ELSE stdin[1] IN
    IF Len(input) > 0 /\ file # ""
      THEN [err |-> ArgErr, StdinFile |-> file, Input |-> ""]
      ELSE [err |-> Nil, StdinFile |-> file,
            Input |-> IF Len(input) = 0 THEN "" ELSE input[1]]

StartTable_Always(e) == AsyncMsg(e)
\* core.go 377-383: the "error" field of the table start returns
StartTable(e) == IF e # Nil THEN AsyncMsg(e) ELSE Nil

\* sched is what Group.Exec returns: Nil when fn was scheduled
StartLookup_First(reg, groupname, e) == StartGroups(reg, groupname)
\* core.go 224-367: the options are read, and their errors raised, before
\* the group is looked up and created at 363-367
StartLookup(reg, groupname, e) ==
  IF e # Nil THEN reg ELSE StartGroups(reg, groupname)

\* core.go 284-309 come before the lookup of the group (363): a call that
\* gives both stdin and input raises and leaves everything as it was
LuaStartRaw(groupname, ignore, sched, stdin, input) ==
  /\ InScript
  /\ started < MaxClosures
  /\ IF ParseStdin(stdin, input).err # Nil
       THEN /\ groups' = StartLookup(groups, groupname,
                                      ParseStdin(stdin, input).err)
            /\ UNCHANGED <<closures, started>>
            /\ lastCall' = Record([returned |-> TRUE, op |-> "start.ArgError",
                                   group |-> groupname,
                                   existed |-> groupname \in DOMAIN groups,
                                   stdin |-> stdin, input |-> input,
                                   sched |-> Nil, rt |-> Nil])
            /\ MapUsed({})
       ELSE /\ LET reg1 == StartLookup(groups, groupname, Nil) IN
                 /\ IF sched = Nil
                      THEN /\ groups' = [reg1 EXCEPT ![groupname] = GroupExec(@)]
                           /\ closures' = Put(closures, started + 1,
                                  [group |-> groupname, ignore |-> ignore,
                                   stage |-> "blocked",
                                   todo |-> reg1[groupname].follows])
                           /\ started' = started + 1
                      ELSE /\ groups' = reg1
                           /\ UNCHANGED <<closures, started>>
                 /\ lastCall' = Record([returned |-> TRUE, op |-> "start",
                                        group |-> groupname,
                                        existed |-> groupname \in DOMAIN groups,
                                        stdin |-> stdin, input |-> input,
                                        sched |-> sched,
                                        rt |-> StartTable(sched)])
            /\ MapUsed({LuaThread})
  /\ lastWait' = NoCall
  /\ UNCHANGED <<phase, wait, err, tasksLeft, exitCode, declared, discarded,
                 suppressed, firstErr,
                 runErr, drainErr, drainWaits>>
  /\ Track

\* ------------------------------------------------- goroutine of a closure
ClosureMapUse_Lookup(i) == {<<"closure", i>>}
\* core.go 369-375: the closure handed to Exec uses args, opt and ignore and
\* calls c.execRaw (575-623), neither of which touches c.groups
ClosureMapUse(i) == {}

\* the closure sees one followed group drained
ClosureFollow(i, f) ==
  /\ i \in DOMAIN closures
  /\ closures[i].stage = "blocked"
  /\ f \in closures[i].todo
  /\ FollowDrained(groups, f)
  /\ closures' = [closures EXCEPT ![i].todo = @ \ {f}]
  /\ UNCHANGED <<groups, started, phase, wait, err, tasksLeft, exitCode,
                 declared, lastWait, discarded, suppressed, firstErr, runErr,
                 drainErr, drainWaits>>
  /\ lastCall' = NoCall
  /\ MapUsed(ClosureMapUse(i))
  /\ Track

CanBegin_Serial(cls, i) ==
  /\ cls[i].todo = {}
  /\ \A j \in DOMAIN cls :
       (j # i /\ cls[j].group = cls[i].group) => cls[j].stage # "running"
\* Group.Exec: the closure starts its body once every followed group was
\* seen drained; it waits for nothing else
CanBegin(cls, i) == cls[i].todo = {}

\* fn begins executing
ClosureBegin(i) ==
  /\ i \in DOMAIN closures
  /\ closures[i].stage = "blocked"
  /\ CanBegin(closures, i)
  /\ closures' = [closures EXCEPT ![i].stage = "running"]
  /\ UNCHANGED <<groups, started, phase, wait, err, tasksLeft, exitCode,
                 declared, lastWait, discarded, suppressed, firstErr, runErr,
                 drainErr, drainWaits>>
  /\ lastCall' = NoCall
  /\ MapUsed(ClosureMapUse(i))
  /\ Track

\* result.Err of the command run by closure i
ExecErr(i, ok) == IF ok THEN Nil ELSE i

ClosureReturn_NoIgnore(ignore, resultErr) == resultErr
\* core.go 369-375: what the closure returns to its group
ClosureReturn(ignore, resultErr) == IF ignore THEN Nil ELSE resultErr

\* fn returns: the error is recorded and the work item is done
ClosureFinish(i, ok) ==
  /\ i \in DOMAIN closures
  /\ closures[i].stage = "running"
  /\ LET g == closures[i].group
         e == ClosureReturn(closures[i].ignore, ExecErr(i, ok)) IN
       /\ groups' = [groups EXCEPT ![g] = GroupDone(@, e)]
       /\ discarded' = IF e # Nil /\ groups[g].err # Nil
                         THEN discarded \cup {g} ELSE discarded
       /\ firstErr' = IF e # Nil /\ firstErr[g] = Nil
                        THEN [firstErr EXCEPT ![g] = e] ELSE firstErr
  /\ suppressed' = IF recording /\ closures[i].ignore /\ ExecErr(i, ok) # Nil
                     THEN suppressed \cup {<<closures[i].group, i>>}
                     ELSE suppressed
  /\ closures' = Drop(closures, i)
  /\ UNCHANGED <<started, phase, wait, err, tasksLeft, exitCode, declared,
                 lastWait, runErr, drainErr, drainWaits>>
  /\ lastCall' = NoCall
  /\ MapUsed(ClosureMapUse(i))
  /\ Track

\* ------------------------------------------------------------------ wait
\* the orders in which "for name := range c.groups" can enumerate the map
RECURSIVE Orders(_)
Orders(S) ==
  IF S = {} THEN {<<>>}
  ELSE UNION {{<<x>> \o t : t \in Orders(S \ {x})} : x \in S}

\* core.go 190-200: the names LuaWait iterates over; a call with arguments
\* reads state.CheckString(1) for every i
WaitNames(args, order) ==
  IF Len(args) = 0 THEN order ELSE [i \in 1..Len(args) |-> args[1]]

\* core.go 205-211: index of the name whose group is waited on (the loop
\* breaks after its first Wait), 0 when no name has a group
WaitPick(reg, names) ==
  LET hits == {i \in 1..Len(names) : names[i] \in DOMAIN reg} IN
    IF hits = {} THEN 0 ELSE CHOOSE i \in hits : \A j \in hits : i <= j

WaitTable_Always(e) == AsyncMsg(e)
\* core.go 213-216: the "error" field of the returned table
WaitTable(e) == IF e # Nil THEN AsyncMsg(e) ELSE Nil

\* lark.wait of the Lua library raises the error field of core.wait's table;
\* DoString returns the raised value wrapped in a *lua.ApiError
LarkWait(rt) == IF rt = Nil THEN Nil ELSE ApiErrorBase + rt

\* the groups a wait call is about: the named ones that are registered, or
\* all registered groups when no name is given
Covered(reg, args) ==
  IF Len(args) = 0 THEN DOMAIN reg
  ELSE {args[i] : i \in 1..Len(args)} \cap DOMAIN reg

WaitArgs == UNION {[1..n -> GroupNames] : n \in 0..MaxWaitArgs}

\* record of a LuaWait call at the moment it returns
WaitRecord(ctx, named, covered, g, ret, prev) ==
  [returned |-> TRUE, ctx |-> ctx, named |-> named,
   covered |-> covered, group |-> g, ret |-> ret,
   rt |-> WaitTable(ret), saw |-> wsaw, prev |-> prev]

\* what the wait that returned in the last step gave for group g
PrevWait(g) ==
  IF recording /\ lastWait.returned /\ lastWait.group = g
    THEN {lastWait.ret} ELSE {}

GroupWait_Clear(g) == [group |-> [g EXCEPT !.err = Nil], ret |-> g.err]
\* Group.Wait on a drained group: the recorded error is returned and the
\* group is left as it is
GroupWait(g) == [group |-> g, ret |-> g.err]

DrainMerge_Last(e, errwait) == errwait
\* part_002 99-102: the first error of the task is kept
DrainMerge(e, errwait) == IF e = Nil THEN errwait ELSE e

\* part_002 94-105: what RunTask does with the error that
\* DoString(`lark.wait()`) returned
DrainStep(errwait) ==
  IF errwait = Nil
    THEN \* break; return err
         /\ phase' = "returned"
         /\ UNCHANGED <<err, drainErr>>
    ELSE /\ err' = DrainMerge(err, errwait)
         /\ drainErr' = IF drainErr = Nil THEN errwait ELSE drainErr
         /\ UNCHANGED phase

\* the code after LuaWait returned, in the task body or in RunTask's loop
Resume(ctx, rt) ==
  IF ctx = "drain"
    THEN DrainStep(LarkWait(rt))
    ELSE UNCHANGED <<err, drainErr, phase>>

\* LuaWait up to group.Wait(): with no group to wait on it returns at once
WaitCall(ctx, args, order) ==
  LET names == WaitNames(args, order)
      k == WaitPick(groups, names) IN
    IF k = 0
      THEN /\ wait' = NoWait
           /\ lastWait' = WaitRecord(ctx, Len(args) > 0, Covered(groups, args),
                                    "-", Nil, {})
           /\ Resume(ctx, WaitTable(Nil))
      ELSE /\ wait' = [active |-> TRUE, ctx |-> ctx, named |-> Len(args) > 0,
                       covered |-> Covered(groups, args),
                       group |-> names[k], todo |-> groups[names[k]].follows,
                       prev |-> PrevWait(names[k])]
           /\ lastWait' = NoCall
           /\ UNCHANGED <<err, drainErr, phase>>

\* wait(...) called by the task body
LuaWait(args) ==
  /\ InScript
  /\ \E order \in (IF Len(args) = 0 THEN Orders(Registered) ELSE {<<>>}) :
       WaitCall("script", args, order)
  /\ UNCHANGED <<groups, closures, started, tasksLeft, exitCode, declared,
                 discarded, suppressed, firstErr, runErr, drainWaits>>
  /\ lastCall' = NoCall
  /\ MapUsed({LuaThread})
  /\ Track

\* Group.Wait sees one followed group drained
WaitFollow(f) ==
  /\ wait.active
  /\ f \in wait.todo
  /\ FollowDrained(groups, f)
  /\ wait' = [wait EXCEPT !.todo = @ \ {f}]
  /\ UNCHANGED <<groups, closures, started, phase, err, tasksLeft, exitCode,
                 declared, lastWait, discarded, suppressed, firstErr, runErr,
                 drainErr, drainWaits>>
  /\ lastCall' = NoCall
  /\ UNCHANGED mapUsers
  /\ Track

\* Group.Wait returns the recorded error and LuaWait returns its table
LuaWaitReturn ==
  /\ wait.active
  /\ WaitReady(groups, wait.group, wait.todo)
  /\ LET w == GroupWait(groups[wait.group]) IN
       /\ groups' = [groups EXCEPT ![wait.group] = w.group]
       /\ lastWait' = WaitRecord(wait.ctx, wait.named, wait.covered,
                                wait.group, w.ret, wait.prev)
       /\ Resume(wait.ctx, WaitTable(w.ret))
  /\ wait' = NoWait
  /\ UNCHANGED <<closures, started, tasksLeft, exitCode, declared,
                 discarded, suppressed, firstErr, runErr, drainWaits>>
  /\ lastCall' = NoCall
  /\ UNCHANGED mapUsers
  /\ Track

\* --------------------------------------------------------- Run / RunTask
\* part_002 63-64, 84-90: the next task of the command line is run
RunBegin ==
  /\ phase = "loop"
  /\ tasksLeft > 0
  /\ phase' = "run"
  /\ tasksLeft' = tasksLeft - 1
  /\ err' = Nil
  /\ runErr' = Nil
  /\ drainErr' = Nil
  /\ drainWaits' = FALSE
  /\ lastWait' = NoCall
  /\ UNCHANGED <<groups, closures, started, wait, exitCode, declared,
                 discarded, suppressed, firstErr>>
  /\ lastCall' = NoCall
  /\ UNCHANGED mapUsers
  /\ Track

\* part_002 90-93: lark.run returned, with or without an error
RunEnd(e) ==
  /\ InScript
  /\ phase' = "drain"
  /\ err' = e
  /\ runErr' = e
  /\ lastWait' = NoCall
  /\ UNCHANGED <<groups, closures, started, wait, tasksLeft, exitCode,
                 declared, discarded, suppressed, firstErr, drainErr, drainWaits>>
  /\ lastCall' = NoCall
  /\ UNCHANGED mapUsers
  /\ Track

\* part_002 95: one lark.wait() of the drain loop
DrainWait ==
  /\ phase = "drain"
  /\ ~wait.active
  /\ drainWaits' = TRUE
  /\ \E order \in Orders(Registered) : WaitCall("drain", <<>>, order)
  /\ UNCHANGED <<groups, closures, started, tasksLeft, exitCode, declared,
                 discarded, suppressed, firstErr, runErr>>
  /\ lastCall' = NoCall
  /\ MapUsed({LuaThread})
  /\ Track

\* part_002 64-67: RunTask returned to Run
RunCheck ==
  /\ phase = "returned"
  /\ IF err # Nil
       THEN phase' = "exited" /\ exitCode' = 1
       ELSE phase' = "loop" /\ exitCode' = exitCode
  /\ UNCHANGED <<groups, closures, started, wait, err, tasksLeft, declared,
                 lastWait, discarded, suppressed, firstErr, runErr, drainErr, drainWaits>>
  /\ lastCall' = NoCall
  /\ UNCHANGED mapUsers
  /\ Track

\* part_002 63-69: no task is left, Run returns and the process exits 0
RunExit ==
  /\ phase = "loop"
  /\ tasksLeft = 0
  /\ phase' = "exited"
  /\ exitCode' = 0
  /\ UNCHANGED <<groups, closures, started, wait, err, tasksLeft, declared,
                 lastWait, discarded, suppressed, firstErr, runErr, drainErr, drainWaits>>
  /\ lastCall' = NoCall
  /\ UNCHANGED mapUsers
  /\ Track

Next ==
  \/ \E name \in GroupNames, fl \in SUBSET GroupNames : LuaMakeGroup(name, fl)
  \/ \E groupname \in GroupNames, ignore \in BOOLEAN, sched \in {Nil, SchedErr} :
        LuaStartRaw(groupname, ignore, sched, <<>>, <<>>)
  \/ \E i \in 1..MaxClosures, f \in GroupNames : ClosureFollow(i, f)
  \/ \E i \in 1..MaxClosures : ClosureBegin(i)
  \/ \E i \in 1..MaxClosures, ok \in BOOLEAN : ClosureFinish(i, ok)
  \/ \E args \in WaitArgs : LuaWait(args)
  \/ \E f \in GroupNames : WaitFollow(f)
  \/ LuaWaitReturn
  \/ RunBegin
  \/ \E e \in {Nil, ScriptErr} : RunEnd(e)
  \/ DrainWait
  \/ RunCheck
  \/ RunExit

Spec == Init /\ [][Next]_vars

TraceSpec == TraceInit /\ [][Next]_vars

\* a command line of one task
LiveInit ==
  /\ InitState /\ tasksLeft = 1 /\ recording = FALSE
  /\ project = NoProject

\* every goroutine that can take a step gets to take it: a closure that may
\* proceed proceeds and its command ends, a Wait that may return returns,
\* the task body comes to its end and the main thread goes on
Fairness ==
  /\ \A i \in 1..MaxClosures :
       /\ WF_vars(\E f \in GroupNames : ClosureFollow(i, f))
       /\ WF_vars(ClosureBegin(i))
       /\ WF_vars(\E ok \in BOOLEAN : ClosureFinish(i, ok))
  /\ WF_vars(\E f \in GroupNames : WaitFollow(f))
  /\ WF_vars(LuaWaitReturn)
  /\ SF_vars(\E e \in {Nil, ScriptErr} : RunEnd(e))
  /\ WF_vars(RunBegin)
  /\ WF_vars(DrainWait)
  /\ WF_vars(RunCheck)
  /\ WF_vars(RunExit)

\* the steps of Next, with every start handing its closure to the group
LiveNext ==
  \/ \E name \in GroupNames, fl \in SUBSET GroupNames : LuaMakeGroup(name, fl)
  \/ \E groupname \in GroupNames :
        LuaStartRaw(groupname, FALSE, Nil, <<>>, <<>>)
  \/ \E i \in 1..MaxClosures, f \in GroupNames : ClosureFollow(i, f)
  \/ \E i \in 1..MaxClosures : ClosureBegin(i)
  \/ \E i \in 1..MaxClosures, ok \in BOOLEAN : ClosureFinish(i, ok)
  \/ \E args \in WaitArgs : LuaWait(args)
  \/ \E f \in GroupNames : WaitFollow(f)
  \/ LuaWaitReturn
  \/ RunBegin
  \/ \E e \in {Nil, ScriptErr} : RunEnd(e)
  \/ DrainWait
  \/ RunCheck
  \/ RunExit

LiveSpec == LiveInit /\ [][LiveNext]_vars /\ Fairness

\* ------------------------------------------------------------------ exec
\* a redirection target is the string of the option, here the sequence of
\* its parts: <<>> when the option is absent, <<"o">> a path, <<"+", "o">>
\* the same path to append to, <<"&", "1">> a reserved token
Targets ==
  {<<>>, <<"o">>, <<"+", "o">>, <<"&", "1">>, <<"&", "2">>, <<"&", "3">>,
   <<"+", "&", "2">>}

\* strings.HasPrefix
HasPrefix(str, c) == Len(str) > 0 /\ str[1] = c

\* core.go 461-467, 478-484: a leading "+" is cut off and sets append
Redirect(target) ==
  IF HasPrefix(target, "+")
    THEN [file |-> Tail(target), append |-> TRUE]
    ELSE [file |-> target, append |-> FALSE]

\* the env option: <<>> when nil, else <<t>> with t the pairs of the table
EnvOpts ==
  {<<>>, <<{}>>, <<{<<"HOME", "x">>}>>, <<{<<"FOO", "1">>}>>}

\* os.Environ() of the lark process, as "name=value" strings
Ambient == {<<"HOME", "=", "h">>, <<"PATH", "=", "p">>}

\* the files that exist for reading
Readable == {"in.txt"}

\* core.go 515-530: the string pairs of the env table as "name=value"
TableEnv(t) == {<<kv[1], "=", kv[2]>> : kv \in t}

\* core.go 487-500: opt.Env stays nil without an env table
ParseEnv(env) == IF Len(env) = 0 THEN {} ELSE TableEnv(env[1])

\* core.go 390-500: the options LuaExecRaw reads from its table
ExecOpt(stdout, stderr, env, stdin, input) ==
  [StdoutFile |-> Redirect(stdout).file, StdoutAppend |-> Redirect(stdout).append,
   StderrFile |-> Redirect(stderr).file, StderrAppend |-> Redirect(stderr).append,
   Env |-> ParseEnv(env),
   StdinFile |-> ParseStdin(stdin, input).StdinFile,
   Input |-> ParseStdin(stdin, input).Input]

\* core.go 586 and os/exec: a command whose Env is nil (no entry) gets the
\* environment of the lark process, any other Env is its whole environment
CmdEnviron(env) == IF env = {} THEN Ambient ELSE env

\* core.go 589-598: what the command reads from, or the error of os.Open
Stdin(opt) ==
  IF opt.Input # "" THEN [err |-> Nil, src |-> "input"]
  ELSE IF opt.StdinFile # ""
    THEN IF opt.StdinFile \in Readable
           THEN [err |-> Nil, src |-> "file"]
           ELSE [err |-> NotExist, src |-> "none"]
  ELSE [err |-> Nil, src |-> "process"]

\* os.Stdout and os.Stderr of the lark process
Stdout == [kind |-> "process", name |-> "stdout"]
Stderr == [kind |-> "process", name |-> "stderr"]

\* core.go 627-630: the flags of os.OpenFile
OpenFlags(a) ==
  {"O_WRONLY", "O_TRUNC", "O_CREATE"} \cup (IF a THEN {"O_APPEND"} ELSE {})

\* core.go 631: os.OpenFile creates a missing file and empties the file when
\* O_TRUNC is given
OpenFile(fs, name, flags) ==
  IF (name \notin DOMAIN fs /\ "O_CREATE" \in flags) \/ "O_TRUNC" \in flags
    THEN Put(fs, name, <<>>)
    ELSE fs

GetOutFile_Path(fs, name, a) ==
  [err |-> Nil, f |-> [kind |-> "file", name |-> name],
   fs |-> OpenFile(fs, name, OpenFlags(a))]
\* core.go 625-644
GetOutFile(fs, name, a) ==
  IF ~HasPrefix(name, "&")
    THEN [err |-> Nil, f |-> [kind |-> "file", name |-> name],
          fs |-> OpenFile(fs, name, OpenFlags(a))]
  ELSE IF name = <<"&", "1">> THEN [err |-> Nil, f |-> Stdout, fs |-> fs]
  ELSE IF name = <<"&", "2">> THEN [err |-> Nil, f |-> Stderr, fs |-> fs]
  ELSE [err |-> InvalidFd, f |-> Stdout, fs |-> fs]

\* what command n writes to its stdout and to its stderr
Output(n, stream) == <<n, stream>>

\* the command writes item to f; a stream of the process that was closed
\* before the command ran takes nothing
Write(st, f, item, cl) ==
  IF f.kind = "file"
    THEN [st EXCEPT !.fs = [@ EXCEPT ![f.name] = Append(@, item)]]
  ELSE IF f.name \in cl THEN st
  ELSE [st EXCEPT !.console = Append(@, <<f.name, item>>)]

\* core.go 605, 616: defer f.Close() of a file getOutFile returned
Closes(opened, f) ==
  IF opened /\ f.kind = "process" THEN {f.name} ELSE {}

\* core.go 609: stderr names the target of stdout
Shared(opt) == opt.StderrFile # <<>> /\ opt.StderrFile = opt.StdoutFile

\* core.go 575-623: command n is run with the streams opt names; ok is
\* whether it exits with status 0, first the stream it writes first
ExecRaw(fs, con, cl, opt, ok, n, first) ==
  LET i == Stdin(opt)
      o == IF opt.StdoutFile # <<>>
             THEN GetOutFile(fs, opt.StdoutFile, opt.StdoutAppend)
             ELSE [err |-> Nil, f |-> Stdout, fs |-> fs]
      oOpened == opt.StdoutFile # <<>> /\ o.err = Nil
      shared == Shared(opt)
      e == IF shared THEN [err |-> Nil, f |-> o.f, fs |-> o.fs]
           ELSE IF opt.StderrFile # <<>>
             THEN GetOutFile(o.fs, opt.StderrFile, opt.StderrAppend)
             ELSE [err |-> Nil, f |-> Stderr, fs |-> o.fs]
      eOpened == ~shared /\ opt.StderrFile # <<>> /\ e.err = Nil
      oCall == IF opt.StdoutFile # <<>>
                 THEN <<[name |-> opt.StdoutFile, a |-> opt.StdoutAppend]>>
                 ELSE <<>>
      eCall == IF ~shared /\ opt.StderrFile # <<>>
                 THEN <<[name |-> opt.StderrFile, a |-> opt.StderrAppend]>>
                 ELSE <<>>
      st0 == [fs |-> e.fs, console |-> con]
      st1 == IF first = "stdout"
               THEN Write(Write(st0, o.f, Output(n, "stdout"), cl),
                          e.f, Output(n, "stderr"), cl)
               ELSE Write(Write(st0, e.f, Output(n, "stderr"), cl),
                          o.f, Output(n, "stdout"), cl)
      none == [fs |-> fs, console |-> con, closed |-> cl, err |-> i.err,
               ran |-> FALSE, stdout |-> Stdout, stderr |-> Stderr,
               stdin |-> i.src, env |-> {}, calls |-> <<>>]
  IN  IF i.err # Nil THEN none
      ELSE IF o.err # Nil THEN [none EXCEPT !.err = o.err, !.calls = oCall]
      ELSE IF e.err # Nil
        THEN [none EXCEPT !.err = e.err, !.fs = o.fs,
                          !.calls = oCall \o eCall,
                          !.closed = cl \cup Closes(oOpened, o.f)]
      ELSE [fs |-> st1.fs, console |-> st1.console,
            closed |-> cl \cup Closes(oOpened, o.f) \cup Closes(eOpened, e.f),
            err |-> IF ok THEN Nil ELSE ExitErr, ran |-> TRUE,
            stdout |-> o.f, stderr |-> e.f,
            stdin |-> i.src, env |-> CmdEnviron(opt.Env),
            calls |-> oCall \o eCall]

\* err.Error()
ErrorText(e) == ErrorTextBase + e

\* core.go 506-509: the "error" field of the table exec returns
ExecTable(e) == IF e # Nil THEN ErrorText(e) ELSE Nil

\* the variables of runVars an exec call leaves alone
execKeeps == <<groups, closures, started, phase, wait, err, tasksLeft,
               exitCode, declared, csaw, wsaw, suppressed, discarded, firstErr,
               runErr, drainErr, drainWaits, recording, mapUsers,
               lark, invoked, lastRun, ncalls, project>>

\* the argument tables of exec: ignore, redirections, an env table, stdin
\* and input
IgnoreArgs ==
  [ignore : BOOLEAN, stdout : {<<>>}, stderr : {<<>>},
   env : {<<>>}, stdin : {<<>>}, input : {<<>>}]
RedirArgs ==
  [ignore : {FALSE}, stdout : Targets, stderr : Targets,
   env : {<<>>}, stdin : {<<>>}, input : {<<>>}]
EnvArgs ==
  [ignore : {FALSE}, stdout : {<<>>}, stderr : {<<>>},
   env : EnvOpts, stdin : {<<>>}, input : {<<>>}]
StdinArgs ==
  [ignore : {FALSE}, stdout : {<<>>}, stderr : {<<>>},
   env : {<<>>}, stdin : StdinOpts, input : InputOpts]
ExecArgs == IgnoreArgs \cup RedirArgs \cup EnvArgs \cup StdinArgs

\* core.go 390-513: exec{..., ignore=, stdout=, stderr=, env=, stdin=, input=}
LuaExecRaw(t, ok, first) ==
  /\ InScript
  /\ nexec < MaxExecs
  /\ LET parsed == ParseStdin(t.stdin, t.input)
         r == ExecRaw(files, console, closed,
                      ExecOpt(t.stdout, t.stderr, t.env, t.stdin, t.input),
                      ok, nexec + 1, first)
         call == [returned |-> TRUE, op |-> "core.exec", n |-> nexec + 1,
                  ok |-> ok, ignore |-> t.ignore,
                  stdout |-> t.stdout, stderr |-> t.stderr,
                  env |-> t.env, stdin |-> t.stdin, input |-> t.input,
                  before |-> files, closedBefore |-> closed,
                  consoleBefore |-> console]
     IN
       IF parsed.err # Nil
         THEN \* ArgError: the call raises before execRaw
              /\ UNCHANGED <<files, console, closed>>
              /\ lastExec' = call @@ [ran |-> FALSE, table |-> FALSE,
                                      rt |-> Nil, raised |-> TRUE,
                                      to |-> [stdout |-> Stdout, stderr |-> Stderr],
                                      from |-> "none", environ |-> {},
                                      calls |-> <<>>]
         ELSE /\ files' = r.fs
              /\ console' = r.console
              /\ closed' = r.closed
              /\ lastExec' = call @@ [ran |-> r.ran, table |-> TRUE,
                                      rt |-> ExecTable(r.err), raised |-> FALSE,
                                      to |-> [stdout |-> r.stdout,
                                              stderr |-> r.stderr],
                                      from |-> r.stdin, environ |-> r.env,
                                      calls |-> r.calls]
  /\ nexec' = nexec + 1
  /\ lastWait' = NoCall
  /\ lastCall' = NoCall
  /\ UNCHANGED execKeeps

\* src/lark.lua 75-95: lark.exec of the Lua prototype runs the command with
\* os.execute, raises "exit status N" unless ignore is set, returns nothing
LarkExec(ok, ignore, first) ==
  /\ InScript
  /\ nexec < MaxExecs
  /\ LET r == ExecRaw(files, console, closed,
                      ExecOpt(<<>>, <<>>, <<>>, <<>>, <<>>),
                      ok, nexec + 1, first) IN
       /\ console' = r.console
       /\ lastExec' = [returned |-> TRUE, op |-> "lark.exec", n |-> nexec + 1,
                       ok |-> ok, ignore |-> ignore,
                       stdout |-> <<>>, stderr |-> <<>>,
                       before |-> files, ran |-> TRUE,
                       table |-> FALSE, rt |-> Nil,
                       raised |-> (r.err # Nil /\ ~ignore)]
  /\ nexec' = nexec + 1
  /\ UNCHANGED <<files, closed>>
  /\ lastWait' = NoCall
  /\ lastCall' = NoCall
  /\ UNCHANGED execKeeps

\* a task whose body calls exec
ExecNext ==
  \/ RunBegin
  \/ \E t \in ExecArgs, ok \in BOOLEAN, first \in {"stdout", "stderr"} :
        LuaExecRaw(t, ok, first)
  \/ \E ok \in BOOLEAN, ignore \in BOOLEAN, first \in {"stdout", "stderr"} :
        LarkExec(ok, ignore, first)

ExecSpec == TraceInit /\ [][ExecNext]_vars

\* a task whose body calls start and exec with stdin and input options
StdinNext ==
  \/ RunBegin
  \/ \E groupname \in GroupNames, sched \in {Nil, SchedErr},
        stdin \in StdinOpts, input \in InputOpts :
        LuaStartRaw(groupname, FALSE, sched, stdin, input)
  \/ \E t \in StdinArgs, ok \in BOOLEAN : LuaExecRaw(t, ok, "stdout")
StdinSpec == TraceInit /\ [][StdinNext]_vars

\* ------------------------------------------------------------ task registry
\* a task name is the sequence of the parts of the string, <<>> the empty
\* string; an argument that may be nil is <<>> when nil and <<v>> otherwise
TaskNames == {<<>>, <<"build">>, <<"main", ".o">>, <<"main", ".c">>}
RunNames == TaskNames \cup {<<"missing">>}

\* the expressions "%.o$", "%.c$" and "main"
Patterns ==
  {[kind |-> "suffix", s |-> ".o"], [kind |-> "suffix", s |-> ".c"],
   [kind |-> "find", s |-> "main"]}

\* whether the expression matches the name in full or in part
Matches(expr, name) ==
  IF expr.kind = "suffix"
    THEN Len(name) > 0 /\ name[Len(name)] = expr.s
    ELSE \E k \in DOMAIN name : name[k] = expr.s

DefaultTask_Last(cur, name) == <<name>>
\* src/lark.lua 16-18: the first name given to lark.task stays the default
DefaultTask(cur, name) == IF cur = <<>> THEN <<name>> ELSE cur

\* what the other variables do during a call of the task library
TaskCall ==
  /\ ncalls < MaxTaskCalls
  /\ ncalls' = ncalls + 1
  /\ UNCHANGED <<runVars, execVars, project>>

\* src/lark.lua 9-22: lark.task(name, fn); fn is identified by the number of
\* the call that registers it
LarkTask(name) ==
  /\ TaskCall
  /\ lark' = [lark EXCEPT !.default_task = DefaultTask(@, name),
                          !.tasks = Put(@, name, ncalls + 1)]
  /\ lastRun' = [returned |-> TRUE, op |-> "task", name |-> name,
                 fn |-> ncalls + 1, raised |-> FALSE]
  /\ UNCHANGED invoked

\* lark.pattern(expr) .. fn of the task library: the pattern task is put at
\* the end of the list.  A pattern is registered after the first task: the
\* default task is then a named task.
LarkPattern(expr) ==
  /\ TaskCall
  /\ lark.default_task # <<>>
  /\ lark' = [lark EXCEPT !.patterns =
                Append(@, [expr |-> expr, body |-> ncalls + 1])]
  /\ lastRun' = [returned |-> TRUE, op |-> "pattern", expr |-> expr,
                 fn |-> ncalls + 1, raised |-> FALSE]
  /\ UNCHANGED invoked

Hits(pats, name) == {k \in DOMAIN pats : Matches(pats[k].expr, name)}
PatternScan_Last(pats, name) ==
  IF Hits(pats, name) = {} THEN 0
  ELSE CHOOSE k \in Hits(pats, name) : \A j \in Hits(pats, name) : j <= k
\* the index of the first pattern task, in registration order, whose
\* expression matches name; 0 when there is none
PatternScan(pats, name) ==
  IF Hits(pats, name) = {} THEN 0
  ELSE CHOOSE k \in Hits(pats, name) : \A j \in Hits(pats, name) : k <= j

\* what the match hands to the body
Captures(expr, name) == <<expr.s>>

NoTask(e, name) ==
  [err |-> e, name |-> name, body |-> Nil, via |-> "none", index |-> 0,
   captures |-> <<>>]

\* src/lark.lua 24-39: the task a call of run_task(arg) runs; after the
\* lookup of the name in lark.tasks the pattern tasks are scanned
Resolve(lk, arg) ==
  LET name == IF arg = <<>> THEN lk.default_task ELSE arg IN
    IF name = <<>> THEN NoTask(<<"no tasks to run">>, <<>>)
    ELSE IF name[1] \in DOMAIN lk.tasks
      THEN [err |-> <<>>, name |-> name, body |-> lk.tasks[name[1]],
            via |-> "exact", index |-> 0, captures |-> <<>>]
    ELSE LET k == PatternScan(lk.patterns, name[1]) IN
      IF k # 0
        THEN [err |-> <<>>, name |-> name, body |-> lk.patterns[k].body,
              via |-> "pattern", index |-> k,
              captures |-> Captures(lk.patterns[k].expr, name[1])]
        ELSE NoTask(<<"no task named ", name[1]>>, name)

\* src/lark.lua 24-43: the body is called before run_task returns
RunTaskCall(entry, arg) ==
  /\ LET r == Resolve(lark, arg) IN
       /\ invoked' = IF r.err = <<>> THEN Append(invoked, r.body) ELSE invoked
       /\ lastRun' = [returned |-> TRUE, op |-> "run_task", entry |-> entry,
                      arg |-> arg, res |-> r, before |-> invoked]
  /\ UNCHANGED lark

\* a script calls lark.run_task(arg)
LarkRunTask(arg) ==
  /\ TaskCall
  /\ RunTaskCall("script", arg)

\* part_002 85-88: the literal RunTask puts into lark.run(...)
TaskLit(task) == IF task = <<>> THEN <<>> ELSE <<task>>

\* part_002 84-93: RunTask runs the task named on the command line
RunTaskRun(task) ==
  /\ TaskCall
  /\ RunTaskCall("RunTask", TaskLit(task))

TaskNext ==
  \/ \E name \in TaskNames : LarkTask(name)
  \/ \E expr \in Patterns : LarkPattern(expr)
  \/ \E arg \in {<<>>} \cup {<<n>> : n \in RunNames} : LarkRunTask(arg)
  \/ \E task \in RunNames : RunTaskRun(task)
TaskSpec == TraceInit /\ [][TaskNext]_vars

\* ------------------------------------------------------------ FindModules
\* a path is the sequence of the pieces of its string, separators and
\* extension included: "x/y.lua" is <<"x", "/", "y", ".lua">>.  These are
\* the files filepath.Walk can meet under dir/lark_modules, relative to it
\* and in the lexical order of the walk
WalkOrder ==
  << <<"a", ".lua">>, <<"init", ".lua">>, <<"notes", ".txt">>,
     <<"x", "/", "init", ".lua">>, <<"x", "/", "y", ".lua">> >>

\* the index of the last separator of path, 0 when it has none
LastSep(path) ==
  IF \E k \in DOMAIN path : path[k] = "/"
    THEN CHOOSE k \in DOMAIN path :
           path[k] = "/" /\ \A j \in DOMAIN path : path[j] = "/" => j <= k
    ELSE 0

\* filepath.Ext, filepath.Base and filepath.Dir of a relative path
Ext(path) == path[Len(path)]
Base(path) == SubSeq(path, LastSep(path) + 1, Len(path))
Dir(path) ==
  IF LastSep(path) = 0 THEN <<".">> ELSE SubSeq(path, 1, LastSep(path) - 1)

\* strings.Replace(mpath, pathSeparator, ".", -1)
Replace(mpath) == [k \in DOMAIN mpath |-> IF mpath[k] = "/" THEN "." ELSE mpath[k]]

\* part_007 95-128: the function given to filepath.Walk, for a file
Visit(relpath) ==
  IF Ext(relpath) # ".lua" THEN [err |-> FALSE, add |-> <<>>]
  ELSE IF Base(relpath) = <<"init", ".lua">>
    THEN IF Dir(relpath) = <<".">>
           THEN [err |-> TRUE, add |-> <<>>]
           ELSE [err |-> FALSE, add |-> <<Replace(Dir(relpath))>>]
    ELSE [err |-> FALSE,
          add |-> <<Replace(SubSeq(relpath, 1, Len(relpath) - 1))>>]

\* filepath.Walk over the files present, from the k-th on: it stops at the
\* first error
RECURSIVE Walk(_, _, _)
Walk(present, k, modules) ==
  IF k > Len(WalkOrder) THEN [err |-> FALSE, modules |-> modules]
  ELSE IF k \notin present THEN Walk(present, k + 1, modules)
  ELSE LET r == Visit(WalkOrder[k]) IN
    IF r.err THEN [err |-> TRUE, modules |-> modules]
    ELSE Walk(present, k + 1, modules \o r.add)

\* part_007 92-130: the walk fills modules and its result is dropped; the
\* function ends with "return nil, nil"
FindModules(present, walkFails) ==
  LET walked == IF walkFails THEN [err |-> TRUE, modules |-> <<>>]
                ELSE Walk(present, 1, <<>>) IN
    [modules |-> <<>>, err |-> FALSE, walked |-> walked]

\* the module directories FindModules is called on
Projects ==
  [present : SUBSET DOMAIN WalkOrder, walkFails : BOOLEAN, called : {FALSE}]

ModInit ==
  /\ InitState /\ tasksLeft = 1 /\ recording = FALSE
  /\ project \in Projects

FindModulesCall ==
  /\ ~project.called
  /\ project' = [present |-> project.present, walkFails |-> project.walkFails,
                 called |-> TRUE,
                 ret |-> FindModules(project.present, project.walkFails)]
  /\ UNCHANGED <<runVars, execVars, taskVars>>

ModNext == FindModulesCall
ModSpec == ModInit /\ [][ModNext]_vars

\* ================================================================ claims

\* C1: a closure of a group made with follows never executes unless every
\* followed group had no outstanding work at some moment since the closure
\* was handed to Exec (so its counter reached zero since its creation).
C1_FollowsDrainedBeforeStart ==
  \A i \in DOMAIN closures :
    closures[i].stage = "running"
      => Declared(declared, closures[i].group) \subseteq csaw[i]

\* a closure of a following group executes after work of the followed group
\* has completed
C1_Witness ==
  \E i \in DOMAIN closures :
    /\ closures[i].stage = "running"
    /\ \E a \in Declared(declared, closures[i].group) :
         a \in csaw[i] /\ groups[a].err # Nil

\* C2: with A following nothing and B following A, a closure of B that is
\* submitted before a closure of A does not execute while that closure of A
\* has not completed.
C2_ReversedSubmission ==
  \A b \in DOMAIN closures, a \in DOMAIN closures :
    ( /\ b < a
      /\ closures[a].group \in Declared(declared, closures[b].group)
      /\ Declared(declared, closures[a].group) = {} )
      => closures[b].stage # "running"

\* C3: the error slot of a group always holds the first non-nil error that a
\* closure of the group returned, later errors are dropped, and a wait on the
\* group returns that first error.
C3_FirstErrorWins ==
  \A g \in DOMAIN groups :
    /\ groups[g].err = firstErr[g]
    /\ (lastWait.returned /\ lastWait.group = g) => lastWait.ret = firstErr[g]

\* two closures of one group failed and a wait on the group returned
C3_Witness ==
  \E g \in discarded :
    /\ lastWait.returned /\ lastWait.group = g
    /\ lastWait.ret = firstErr[g] /\ firstErr[g] # Nil

\* C4: when a wait on a group has returned, the group has no outstanding
\* work, every group it follows was seen drained during the wait, and the
\* value returned is the group's recorded error (nil when no closure of the
\* group returned an error).
C4_WaitReturnsDrained ==
  (lastWait.returned /\ lastWait.group \in DOMAIN groups) =>
    LET g == lastWait.group IN
      /\ groups[g].running = 0
      /\ Declared(declared, g) \subseteq lastWait.saw
      /\ lastWait.ret = groups[g].err
      /\ (lastWait.ret = Nil <=> firstErr[g] = Nil)

\* a wait on a group that follows another one returned the recorded error
C4_Witness ==
  /\ lastWait.returned /\ lastWait.group \in DOMAIN groups
  /\ Declared(declared, lastWait.group) # {}
  /\ lastWait.ret # Nil

\* C5: when wait() without names has returned, every group registered at the
\* call has no outstanding work.
C5_WaitAllGroups ==
  (lastWait.returned /\ ~lastWait.named) =>
    \A g \in lastWait.covered : groups[g].running = 0

\* C6: when wait(n1, ..., nk) has returned, every registered group among the
\* names has no outstanding work.
C6_WaitNamedGroups ==
  (lastWait.returned /\ lastWait.named) =>
    \A g \in lastWait.covered : groups[g].running = 0

\* C7: the table returned by wait has an error field exactly when one of the
\* groups covered by the call has a recorded error.
C7_WaitReportsError ==
  lastWait.returned =>
    (lastWait.rt # Nil <=> \E g \in lastWait.covered : groups[g].err # Nil)

\* C8: when the drain loop of RunTask has ended, no registered group has
\* outstanding work, and it reported an error exactly when some group has
\* recorded one.
C8_DrainComplete ==
  phase = "returned" =>
    /\ \A g \in DOMAIN groups : groups[g].running = 0
    /\ drainErr # Nil <=> \E g \in DOMAIN groups : groups[g].err # Nil

\* C9: the process exits with code 0 only when no task failed and no group
\* has recorded an error.
C9_ExitCode ==
  exitCode = 0 => \A g \in DOMAIN groups : groups[g].err = Nil

\* C10: RunTask returns only after lark.run and at least one lark.wait(); the
\* error it returns is non-nil exactly when lark.run or a lark.wait() of the
\* drain failed, and it is the error of lark.run if there is one, otherwise
\* the first error of the drain.
C10_RunThenDrain ==
  phase = "returned" =>
    /\ drainWaits
    /\ err # Nil <=> (runErr # Nil \/ drainErr # Nil)
    /\ err = IF runErr # Nil THEN runErr ELSE drainErr

\* RunTask returned after both lark.run and the drain reported an error
C10_Witness ==
  phase = "returned" /\ runErr # Nil /\ drainErr # Nil

\* ------------------------------------------------------------------ C11
\* C11: the table start returns carries an error exactly when Group.Exec
\* itself failed and that error is never the outcome of a started command;
\* the error lark.run returns is the task body's own, and an error of a
\* started command reaches RunTask's result only through the drain loop.
C11_StartReportsSchedulingOnly ==
  /\ (lastCall.returned /\ lastCall.op = "start") =>
        /\ (lastCall.rt # Nil) <=> (lastCall.sched # Nil)
        /\ lastCall.rt \in {Nil, AsyncMsg(SchedErr)}
  /\ runErr \in {Nil, ScriptErr}
  /\ (err # runErr) => (runErr = Nil /\ drainWaits /\ err = drainErr)

\* start returned an empty table and the command it started has failed
C11_Witness ==
  /\ lastCall.returned /\ lastCall.op = "start"
  /\ lastCall.sched = Nil /\ lastCall.rt = Nil
  /\ lastCall.existed /\ groups[lastCall.group].err # Nil
  /\ phase = "run" /\ err = Nil

\* ------------------------------------------------------------------ C12
\* C12: a command started with ignore=true runs to completion, and when it
\* fails its error is in no group's error slot and in no result of wait.
C12_IgnoredFailureNotRecorded ==
  \A p \in suppressed :
    /\ p[2] \notin DOMAIN closures
    /\ \A g \in Registered : groups[g].err # p[2]
    /\ lastWait.returned => lastWait.ret # p[2]

\* wait on the group of an ignored, failed command returned no error
C12_Witness ==
  \E p \in suppressed :
    /\ lastWait.returned /\ lastWait.group = p[1]
    /\ lastWait.ret = Nil /\ lastWait.rt = Nil
\* ------------------------------------------------------------------ C14
\* C14: make_group raises "group already exists" exactly when the group it
\* names was registered before the call; the groups that start and the
\* follows of make_group create implicitly raise no conflict.
C14_ConflictIffExisted ==
  (lastCall.returned /\ lastCall.op = "make_group") =>
    (lastCall.conflict <=> lastCall.existed)
C16_FollowsImmutable ==
  [][/\ \A n \in DOMAIN groups :
          n \in DOMAIN groups' /\ groups'[n].follows = groups[n].follows
     /\ \A n \in DOMAIN groups' \ DOMAIN groups :
          groups'[n].follows =
            IF lastCall'.returned /\ lastCall'.op = "make_group"
                 /\ lastCall'.name = n /\ ~lastCall'.conflict
              THEN lastCall'.fl ELSE {}]_vars

\* make_group named a registered group with other follows and was refused
C16_Witness ==
  /\ lastCall.returned /\ lastCall.op = "make_group"
  /\ lastCall.existed /\ lastCall.conflict
  /\ groups[lastCall.name].follows # lastCall.fl
  /\ \E n \in Registered : groups[n].follows # {}

\* ------------------------------------------------------------------ C17
\* C17: no group reaches itself through follows references, also after
\* make_group named itself or a registered group in follows.
C17_FollowsAcyclic ==
  \A n \in Registered :
    \A m \in groups[n].follows :
      /\ m # n
      /\ \A k \in groups[m].follows :
           /\ k # n
           /\ n \notin groups[k].follows

\* make_group named itself in follows, beside a group that follows another
C17_Witness ==
  /\ lastCall.returned /\ lastCall.op = "make_group"
  /\ lastCall.name \in lastCall.fl
  /\ \E n \in Registered : groups[n].follows # {}
\* ------------------------------------------------------------------ C18
\* C18: the counter of every group is never negative and equals the number
\* of closures handed to its Exec that have not returned yet.
C18_CounterIsOutstanding ==
  \A g \in Registered :
    /\ groups[g].running >= 0
    /\ groups[g].running =
         Cardinality({i \in DOMAIN closures : closures[i].group = g})

\* a group holds two closures, one begun and one not, after start found the
\* group registered
C18_Witness ==
  \E g \in Registered :
    /\ groups[g].running = 2
    /\ \E i, j \in DOMAIN closures :
         /\ closures[i].group = g /\ closures[j].group = g
         /\ closures[i].stage = "running" /\ closures[j].stage = "blocked"
\* ------------------------------------------------------------------ C19
\* C19: a wait that returns changes no counter and no error slot, and a
\* wait on the group the previous call waited on, with no Exec in between,
\* returns the same recorded error.
C19_WaitIdempotent ==
  [][(wait.active /\ ~wait'.active) =>
       /\ groups' = groups
       /\ lastWait'.returned
       /\ \A e \in lastWait'.prev : lastWait'.ret = e]_vars

\* the second of two waits in a row on a group returned its error again
C19_Witness ==
  /\ lastWait.returned
  /\ lastWait.ret # Nil
  /\ lastWait.prev = {lastWait.ret}
  /\ groups[lastWait.group].err = lastWait.ret
\* ------------------------------------------------------------------ C13
\* C13: the table exec returns for a command that ran has its error field
\* set exactly when the command failed and ignore was not given.
C13_ExecErrorUnlessIgnored ==
  (lastExec.returned /\ lastExec.op = "core.exec" /\ lastExec.ran) =>
    ((lastExec.rt # Nil) <=> (~lastExec.ok /\ ~lastExec.ignore))

\* ------------------------------------------------------------------ C20
\* C20: after exec with stdout or stderr redirected to a path the file
\* holds only what the command wrote to that stream, and after exec with
\* the path prefixed by "+" it holds its earlier content followed by what
\* the command wrote.
C20_TruncateOrAppend ==
  (lastExec.returned /\ lastExec.op = "core.exec" /\ lastExec.ran) =>
    \A stream \in {"stdout", "stderr"} :
      LET target == lastExec[stream]
          other == lastExec[IF stream = "stdout" THEN "stderr" ELSE "stdout"]
          r == Redirect(target)
          earlier == IF r.file \in DOMAIN lastExec.before
                       THEN lastExec.before[r.file] ELSE <<>>
      IN  (r.file # <<>> /\ ~HasPrefix(r.file, "&")
             /\ Redirect(other).file # r.file) =>
            files[r.file] = (IF r.append THEN earlier ELSE <<>>)
                              \o <<Output(lastExec.n, stream)>>
\* ------------------------------------------------------------------ C30
\* C30: while no group is registered no wait blocks, wait() returns a table
\* without error, and the drain loop of RunTask ends after its first
\* lark.wait() without an error of its own.
C30_WaitNoGroups ==
  /\ Registered = {} => ~wait.active
  /\ (lastWait.returned /\ ~lastWait.named /\ lastWait.covered = {}) =>
       (lastWait.ret = Nil /\ lastWait.rt = Nil)
  /\ (Registered = {} /\ drainWaits) => (phase # "drain" /\ drainErr = Nil)

\* RunTask returned after one lark.wait() that found no group
C30_Witness ==
  /\ Registered = {}
  /\ phase = "returned"
  /\ lastWait.returned /\ lastWait.ctx = "drain" /\ lastWait.rt = Nil
\* ------------------------------------------------------------------ C29
\* C29: c.groups has no lock, so its accesses are serialized exactly when
\* one thread makes them all: make_group, start and wait run on the thread
\* of the Lua state, and no closure running inside a group reads or writes
\* the map.
C29_MapSingleThread == mapUsers \subseteq {LuaThread}

\* the Lua thread has used the map while the closures of two groups run
C29_Witness ==
  /\ mapUsers = {LuaThread}
  /\ wait.active
  /\ \E i, j \in DOMAIN closures :
       /\ closures[i].group # closures[j].group
       /\ closures[i].stage = "running" /\ closures[j].stage = "running"
\* C21: "&1" and "&2", with or without a leading "+", make the command write
\* to the stdout and the stderr of the lark process and no file is opened,
\* created or emptied for them; any other target that begins with "&" makes
\* the call return an error without running the command.
C21_Reserved == {<<"&", "1">>, <<"&", "2">>}
C21_Handle(file) == IF file = <<"&", "1">> THEN Stdout ELSE Stderr
C21_ReservedTokens ==
  /\ \A name \in DOMAIN files : ~HasPrefix(name, "&")
  /\ (lastExec.returned /\ lastExec.op = "core.exec") =>
       /\ \A stream \in {"stdout", "stderr"} :
            LET file == Redirect(lastExec[stream]).file IN
              /\ (file \in C21_Reserved /\ lastExec.ran) =>
                   /\ lastExec.to[stream] = C21_Handle(file)
                   /\ C21_Handle(file).name \notin lastExec.closedBefore =>
                        \E k \in Len(lastExec.consoleBefore) + 1 .. Len(console) :
                          console[k] = <<C21_Handle(file).name,
                                         Output(lastExec.n, stream)>>
              /\ (HasPrefix(file, "&") /\ file \notin C21_Reserved) =>
                   /\ lastExec.rt # Nil
                   /\ ~lastExec.ran
                   /\ console = lastExec.consoleBefore
       /\ (\A stream \in {"stdout", "stderr"} :
             Redirect(lastExec[stream]).file \in C21_Reserved \cup {<<>>}) =>
            files = lastExec.before
C21_Witness ==
  /\ lastExec.returned /\ lastExec.op = "core.exec" /\ lastExec.ran
  /\ lastExec.stdout = <<"+", "&", "2">> /\ lastExec.stderr = <<"&", "1">>
  /\ lastExec.closedBefore = {}
  /\ files = lastExec.before
  /\ <<"stderr", Output(lastExec.n, "stdout")>> = console[Len(console)]
\* C22: the environment of a command that exec ran holds every pair of the
\* env table and every variable of the lark process the table does not name,
\* with the value it has in the lark process.
C22_EnvAdditive ==
  (lastExec.returned /\ lastExec.op = "core.exec" /\ lastExec.ran) =>
    LET overlay == ParseEnv(lastExec.env) IN
      /\ overlay \subseteq lastExec.environ
      /\ \A a \in Ambient :
           (\A o \in overlay : o[1] # a[1]) => a \in lastExec.environ
\* C23: a call of exec or start raises an argument error exactly when its
\* table gives input and a stdin that is not the empty string; the command of
\* such a call is not run, no closure is scheduled and no group is created.
\* Any other call with input that is not empty runs the command on the input.
C23_Conflict(stdin, input) ==
  Len(input) > 0 /\ Len(stdin) > 0 /\ stdin[1] # ""
C23_ExecConflict ==
  (lastExec.returned /\ lastExec.op = "core.exec") =>
    /\ lastExec.raised <=> C23_Conflict(lastExec.stdin, lastExec.input)
    /\ lastExec.raised =>
         /\ ~lastExec.ran /\ ~lastExec.table
         /\ files = lastExec.before /\ console = lastExec.consoleBefore
    /\ (~lastExec.raised /\ Len(lastExec.input) > 0 /\ lastExec.input[1] # "") =>
         (lastExec.ran /\ lastExec.from = "input")
C23_StartConflict ==
  (lastCall.returned /\ lastCall.op \in {"start", "start.ArgError"}) =>
    (lastCall.op = "start.ArgError"
       <=> C23_Conflict(lastCall.stdin, lastCall.input))
C23_NothingScheduled ==
  (lastCall'.returned /\ lastCall'.op = "start.ArgError") =>
    UNCHANGED <<groups, closures, started>>
C23_Given(stdin, input) == Len(input) > 0 /\ Len(stdin) > 0
C24_DefaultSetOnce ==
  /\ (lark.default_task = <<>> /\ lastRun'.returned /\ lastRun'.op = "task") =>
       lark'.default_task = <<lastRun'.name>>
  /\ lark.default_task # <<>> => lark'.default_task = lark.default_task
C24_DefaultRuns ==
  /\ lark.default_task = <<>> <=> DOMAIN lark.tasks = {}
  /\ (lastRun.returned /\ lastRun.op = "run_task" /\ lastRun.arg = <<>>
        /\ lark.default_task # <<>>) =>
       /\ lastRun.res.err = <<>>
       /\ lastRun.res.name = lark.default_task
       /\ lastRun.res.body = lark.tasks[lark.default_task[1]]
       /\ invoked = Append(lastRun.before, lastRun.res.body)
C26_ResolutionFailures ==
  (lastRun.returned /\ lastRun.op = "run_task") =>
    /\ (lastRun.arg # <<>>
          /\ lastRun.arg[1] \notin DOMAIN lark.tasks
          /\ Hits(lark.patterns, lastRun.arg[1]) = {}
          /\ lastRun.arg[1] # <<>>) =>
         /\ lastRun.res.err = <<"no task named ", lastRun.arg[1]>>
         /\ invoked = lastRun.before
    /\ (lastRun.arg \in {<<>>, << <<>> >>}
          /\ DOMAIN lark.tasks = {} /\ lark.patterns = <<>>) =>
         /\ lastRun.res.err = <<"no tasks to run">>
         /\ invoked = lastRun.before

\* C27: a run of a registered name invokes the body registered under it,
\* once and with no captures, and no step removes a registered name or
\* changes the body registered under it.
C27_RunsRegistered ==
  (lastRun.returned /\ lastRun.op = "run_task" /\ lastRun.arg # <<>>
     /\ lastRun.arg[1] \in DOMAIN lark.tasks) =>
    /\ lastRun.res.body = lark.tasks[lastRun.arg[1]]
    /\ lastRun.res.captures = <<>>
    /\ invoked = Append(lastRun.before, lastRun.res.body)
C27_AppendOnly ==
  \A name \in DOMAIN lark.tasks :
    name \in DOMAIN lark'.tasks /\ lark'.tasks[name] = lark.tasks[name]
C27_TasksImmutable == []C27_RunsRegistered /\ [][C27_AppendOnly]_vars

\* C28: lark.task with the empty name raises an argument error and leaves
\* lark.tasks and lark.default_task as they were.
C28_EmptyNameStep ==
  (lastRun'.returned /\ lastRun'.op = "task" /\ lastRun'.name = <<>>) =>
    (lastRun'.raised /\ lark' = lark)
C28_EmptyNameRejected == [][C28_EmptyNameStep]_vars
\* C33: a make_group call that raises leaves c.groups as it was: the call
\* registers no group, the groups of its follows list included.
C33_FailedStep ==
  (lastCall'.returned /\ lastCall'.op = "make_group" /\ lastCall'.conflict) =>
    groups' = groups
C33_FailedMakeGroupNoEffect == [][C33_FailedStep]_vars
\* C34: no exec closes the stdout or the stderr of the lark process, so the
\* output of every command whose stream is a stream of the process reaches
\* that stream.
C34_StdioStaysOpen ==
  /\ closed = {}
  /\ (lastExec.returned /\ lastExec.op = "core.exec" /\ lastExec.ran) =>
       \A stream \in {"stdout", "stderr"} :
         lastExec.to[stream].kind = "process" =>
           \E k \in Len(lastExec.consoleBefore) + 1 .. Len(console) :
             console[k] = <<lastExec.to[stream].name,
                            Output(lastExec.n, stream)>>
\* C38: when stdout and stderr of a command name the same target, "+" cut
\* off, getOutFile is called once, with the append flag of stdout; a command
\* that runs has one handle for both streams, and the file holds the two
\* outputs in the order written, after its earlier content when stdout has
\* the "+" and alone otherwise.
C38_Same ==
  /\ Redirect(lastExec.stdout).file # <<>>
  /\ Redirect(lastExec.stdout).file = Redirect(lastExec.stderr).file
C38_Outputs(first) ==
  IF first = "stdout"
    THEN <<Output(lastExec.n, "stdout"), Output(lastExec.n, "stderr")>>
    ELSE <<Output(lastExec.n, "stderr"), Output(lastExec.n, "stdout")>>
C38_Earlier(file, a) ==
  IF a /\ file \in DOMAIN lastExec.before THEN lastExec.before[file] ELSE <<>>
C38_SharedHandle ==
  (lastExec.returned /\ lastExec.op = "core.exec" /\ C38_Same) =>
    LET file == Redirect(lastExec.stdout).file
        a == Redirect(lastExec.stdout).append
    IN  /\ lastExec.calls = <<[name |-> file, a |-> a]>>
        /\ lastExec.ran =>
             /\ lastExec.to.stdout = lastExec.to.stderr
             /\ ~HasPrefix(file, "&") =>
                  \E first \in {"stdout", "stderr"} :
                    files[file] = C38_Earlier(file, a) \o C38_Outputs(first)
\* C37: a start call that raises an argument error schedules no closure,
\* registers no group and leaves the counter and the error of every group,
\* and all else the scheduler keeps, as they were.
C37_RejectedStep ==
  (lastCall'.returned /\ lastCall'.op = "start.ArgError") =>
    /\ DOMAIN groups' = DOMAIN groups
    /\ \A g \in DOMAIN groups :
         /\ groups'[g].running = groups[g].running
         /\ groups'[g].err = groups[g].err
         /\ groups'[g].follows = groups[g].follows
    /\ UNCHANGED <<closures, started, wait, phase, err>>
C37_RejectedStartNoEffect == [][C37_RejectedStep]_vars
C37_Witness ==
  /\ lastCall.returned /\ lastCall.op = "start.ArgError"
  /\ lastCall.group = "a" /\ ~lastCall.existed
  /\ DOMAIN groups = {""} /\ started = 1
\* C31: a scheduled closure waits only for groups its own group follows:
\* once it has seen each of them drained it can begin, whatever the closures
\* of its own group and of the other groups are doing.
C31_NoOrdering ==
  \A i \in DOMAIN closures :
    closures[i].stage = "blocked" =>
      /\ closures[i].todo \subseteq groups[closures[i].group].follows
      /\ closures[i].todo = {} => ENABLED ClosureBegin(i)
C31_Witness ==
  \E i, j \in DOMAIN closures :
    /\ i # j /\ closures[i].group = closures[j].group
    /\ closures[i].stage = "running" /\ closures[j].stage = "running"
\* C32: the drain loop of RunTask ends: a RunTask that has begun to drain
\* returns.
C32_DrainTerminates == (phase = "drain") ~> (phase = "returned")
\* C35: with closure bodies that terminate, every closure handed to a group
\* begins its body and every Wait in progress returns, also when a followed
\* group exists only because a follows list named it and never gets work.
C35_ClosureStarts ==
  \A i \in 1..MaxClosures :
    (i \in DOMAIN closures /\ closures[i].stage = "blocked")
      ~> (i \notin DOMAIN closures \/ closures[i].stage = "running")
C35_WaitReturns == wait.active ~> ~wait.active
C35_NoneBlockedForever == C35_ClosureStarts /\ C35_WaitReturns
C35_Witness ==
  /\ \E i \in DOMAIN closures :
       /\ closures[i].stage = "running"
       /\ \E f \in groups[closures[i].group].follows :
            /\ f \notin DOMAIN declared
            /\ groups[f].running = 0
            /\ \A j \in DOMAIN closures : closures[j].group # f
  /\ wait.active
\* C36: the tasks of the command line are run one after the other, each
\* drained before the next begins: a task begins only when no closure is
\* outstanding, and a task that returned an error ends the process with exit
\* code 1.  No argument stands for one run of the default task, an empty
\* argument is refused, any other command line is run as given.
C36_NormTasks ==
  \A args \in ArgLists :
    /\ Len(args) = 0 => NormTasks(args) = [err |-> FALSE, tasks |-> <<"">>]
    /\ (\E k \in DOMAIN args : args[k] = "") => NormTasks(args).err
    /\ (Len(args) > 0 /\ \A k \in DOMAIN args : args[k] # "") =>
         NormTasks(args) = [err |-> FALSE, tasks |-> args]
C36_Step ==
  /\ (phase = "loop" /\ phase' = "run") =>
       /\ closures = <<>>
       /\ \A g \in DOMAIN groups : groups[g].running = 0
  /\ (phase = "returned" /\ err # Nil) =>
       (phase' = "exited" /\ exitCode' = 1 /\ tasksLeft' = tasksLeft)
  /\ phase = "exited" => phase' = "exited"
C36_TasksInOrder == []C36_NormTasks /\ [][C36_Step]_vars
\* C39: FindModules returns the require() name of every .lua file under the
\* module directory: the relative path without ".lua" and with "." for the
\* separators, and the directory for an init.lua; it returns an error when
\* the walk fails or init.lua lies in the module directory itself.
C39_Has(path) == \E k \in project.present : WalkOrder[k] = path
C39_Names ==
  (IF C39_Has(<<"a", ".lua">>) THEN {<<"a">>} ELSE {})
    \cup (IF C39_Has(<<"x", "/", "init", ".lua">>) THEN {<<"x">>} ELSE {})
    \cup (IF C39_Has(<<"x", "/", "y", ".lua">>)
            THEN {<<"x", ".", "y">>} ELSE {})
C39_FindModules ==
  project.called =>
    IF project.walkFails \/ C39_Has(<<"init", ".lua">>)
      THEN project.ret.err
      ELSE /\ ~project.ret.err
           /\ {project.ret.modules[k] : k \in DOMAIN project.ret.modules}
                = C39_Names
====
